---------------------------- MODULE Spec2Model ----------------------------
(***************************************************************************)
(* Model of the surrogate selection engine of surro-sel                    *)
(* (src/utils/surrogate_selection.py, class SurrogateSelection).           *)
(*                                                                         *)
(* Arithmetic.  The model keeps one descriptor column (D = 1), so that     *)
(* every quantity the engine compares is a rational number with a common   *)
(* positive denominator and can be computed exactly with integers:         *)
(*   - X[i] is the standardized value of point i in units of 1/(N*sigma),  *)
(*     that is X[i] = N*data[i] - sum(data); sigma is the population       *)
(*     standard deviation of the column, N the number of rows;             *)
(*   - h[i] is the leverage of point i in units of 1/hden, with            *)
(*     hden = sum of X[j]^2 (for one column X^T X is that 1x1 matrix and   *)
(*     diag(X (X^T X)^-1 X^T)[i] = X[i]^2 / hden);                         *)
(*   - a score is kept in units of 1/(hden * N * N * sigma).               *)
(* The units depend on the data set only, so comparisons between           *)
(* leverages, between distances and between scores of one engine are the   *)
(* comparisons the program makes.                                          *)
(*                                                                         *)
(* Python arrays are functions on 0..len-1, as the program's indices are.  *)
(* A library call whose result the library leaves open (the order inside   *)
(* a partition of argpartition, its choice among tied values, the cluster  *)
(* labels, the tie between equal merge costs, the random draw) is the set  *)
(* of its possible results; the empty set is a raised exception.           *)
(***************************************************************************)
EXTENDS Integers, FiniteSets, Sequences, TLC

\* Largest number of rows of a data set, and largest raw descriptor value.
MaxN == 3
MaxVal == 3

\* Largest number of rows and largest raw value of a two-column matrix, and
\* the largest magnitude tried for a leverage computed from an inverse that
\* rounding made up.
MaxRows == 3
MaxEntry == 2
MaxInexact == 1

\* Largest number of sizes handed to the baseline simulator, and largest
\* number of repetitions per size (the program repeats RANDOM_REPS = 100
\* times; the model runs the same loop with fewer repetitions).
MaxSizes == 2
MaxReps == 2

\* Largest seed of the global generator; the generator has MaxSeed + 1 states.
MaxSeed == 2

\* Largest number of sizes Select clicks add to the list RANDOM_NS.
MaxExtra == 2

\* Largest number of records handed to the descriptor calculation.
MaxRecs == 3

\* Largest index value of a record.
MaxId == 2

\* Largest number of distinct contents of a parquet file.
MaxContent == 2

\* Latest time of the clock.
MaxClock == 2

VARIABLES
    eng,        \* "off" | "new" | "ready" | "failed": SurrogateSelection.__init__
    data,       \* the raw descriptor column handed to the constructor
    X,          \* self.X, the standardized matrix (one column)
    h,          \* self.h, the leverage vector
    op,         \* "none" | "select" | "score": the last call's method
    call,       \* the last select call: [n |-> [num, den], strategy |-> ...]
    subset,     \* the index array handed to the last score call
    n_eff,      \* the effective count the last call resolved
    outcome,    \* "none" | "returned" | "raised"
    surrogates, \* the indices the last call returned
    clusters,   \* the cluster label of every point (HIERARCHICAL only)
    lard,       \* the score the last call returned
    inst,       \* "off" | "new" | "ready" | "failed": construction on a matrix
    matrix,     \* the raw feature matrix, column by column
    hat,        \* the leverage vector of the matrix, in units of 1/hatden
    hatden,     \* the determinant of X^T X of the matrix
    reps,       \* RANDOM_REPS, the repetitions per size
    sim_pc,     \* "idle" | "running" | "returned" | "raised": _simulate_random
    sim_ns,     \* the list of sizes handed to _simulate_random
    scores,     \* the local list scores of _simulate_random
    drawn_at,   \* for every score in scores, the size its selection was made at
    sim,        \* the dict _simulate_random returned
    rng,        \* the state of numpy's global generator (np.random)
    seeded,     \* the seed set for the run in progress, -1 when there is none
    run_seed,   \* the seed the last run of select was made with
    ref,        \* the first seeded run: its seed, its n and its indices
    RANDOM_NS,  \* the module-level list RANDOM_NS of the sidebar
    desc_rows,  \* desc().shape[0], the number of rows of the loaded data set
    app_surr,   \* the keys of the reactive value surr of the application
    app_sim,    \* the sizes behind the reactive value sim, in order
    clicked,    \* how the last event ended: the outcome of a Select click,
                \* "cleared" for a load that emptied results, "none" otherwise
    last,       \* the inputs that click read
    inp,        \* the values of the sidebar's inputs
    stale,      \* whether surr or sim hold results of a data set loaded before
    records,    \* the records handed to calculate_ionization_efficiency
    calc,       \* what calculate_ionization_efficiency did with them
    disk,       \* the data folder: for every name, the directory of that name
    log,        \* the timestamp in last_updated.txt
    clock,      \* datetime.now()
    save,       \* the call of save_data: its arguments and how it ended
    datasets,   \* the reactive value datasets: the names on offer
    modal,      \* "closed" | "load" | "upload": the modal on display
    up_name,    \* the input name of the upload modal, a string of characters
    temp,       \* the reactive value temp: the records of the file chosen
    id_col,     \* the input id_col of the upload modal
    qrs_col,    \* the input qrs_col of the upload modal
    notified,   \* the notifications the last click showed, in order
    up,         \* how the last event ended when it was an Upload click:
                \* "rejected" | "raised" | "uploaded", and "none" otherwise
    app_data    \* the reactive values data and desc of the application

engvars == <<eng, data, X, h>>

callvars == <<op, call, subset, n_eff, outcome, surrogates, clusters, lard>>

covvars == <<inst, matrix, hat, hatden>>

\* what the calls on a one-column engine leave alone
simvars == <<reps, sim_pc, sim_ns, scores, drawn_at, sim>>

rngvars == <<rng, seeded, run_seed, ref>>

dashvars ==
    <<RANDOM_NS, desc_rows, app_surr, app_sim, clicked, last, inp, stale>>

calcvars == <<records, calc>>

\* the descriptor calculation, the data folder and the modals
filevars == <<disk, log, clock, save>>

modalvars ==
    <<datasets, modal, up_name, temp, id_col, qrs_col, notified, up, app_data>>

appvars == <<calcvars, filevars, modalvars>>

notengine == <<covvars, simvars, rngvars, dashvars, appvars>>

vars == <<engvars, callvars, notengine>>

-----------------------------------------------------------------------------
(* Arrays and integers *)

Len0(a) == Cardinality(DOMAIN a)

Range(a) == {a[i] : i \in DOMAIN a}

Abs(x) == IF x < 0 THEN -x ELSE x

MinOf(S) == CHOOSE x \in S : \A y \in S : x <= y

MaxOf(S) == CHOOSE x \in S : \A y \in S : y <= x

RECURSIVE SumOver(_, _)
SumOver(f, S) ==
    IF S = {} THEN 0
    ELSE LET i == CHOOSE j \in S : TRUE IN f[i] + SumOver(f, S \ {i})

\* a ++ b for Python arrays
Concat(a, b) ==
    [i \in 0..(Len0(a) + Len0(b) - 1) |->
        IF i < Len0(a) THEN a[i] ELSE b[i - Len0(a)]]

\* Python's a[:stop]
PySliceTo(a, stop) ==
    LET len == Len0(a)
        e == IF stop < 0 THEN MaxOf({len + stop, 0}) ELSE MinOf({stop, len})
    IN [i \in 0..(e - 1) |-> a[i]]

\* Python's a[start:]; a[-0:] is a[0:], the whole array
PySliceFrom(a, start) ==
    LET len == Len0(a)
        s == IF start < 0 THEN MaxOf({len + start, 0}) ELSE MinOf({start, len})
    IN [i \in 0..(len - s - 1) |-> a[s + i]]

\* Python's round(p/q), q > 0: to the nearest integer, a tie to the even one
PyRound(p, q) ==
    LET fl == p \div q
        r == p % q
    IN IF 2 * r < q THEN fl
       ELSE IF 2 * r > q THEN fl + 1
       ELSE IF fl % 2 = 0 THEN fl ELSE fl + 1

\* Python's int(n_eff / 2): true division, then truncation toward zero
PyIntHalf(k) == IF k >= 0 THEN k \div 2 ELSE -((-k) \div 2)

-----------------------------------------------------------------------------
(* Construction *)

\* StandardScaler().fit_transform(data), in units of 1/(N*sigma); a column of
\* zero variance comes out all zero
fit_transform(d) ==
    LET n == Len0(d)
    IN [i \in DOMAIN d |-> n * d[i] - SumOver(d, DOMAIN d)]

\* X^T X, a 1x1 matrix
gram(x) == SumOver([i \in DOMAIN x |-> x[i] * x[i]], DOMAIN x)

\* the hat matrix's diagonal without the square
leverage_signed(x) == [i \in DOMAIN x |-> x[i]]

\* np.diagonal(X (X^T X)^-1 X^T), in units of 1/gram(X)
leverage(x) == [i \in DOMAIN x |-> x[i] * x[i]]

N == Len0(X)

hden == gram(X)

-----------------------------------------------------------------------------
(* Leverage ranking *)

Permutations0(n) ==
    {p \in [0..(n - 1) -> 0..(n - 1)] : \A i, j \in 0..(n - 1) : p[i] = p[j] => i = j}

\* np.argpartition(a, kth): every index array that puts the kth smallest value
\* at position kth, no larger value before it and no smaller value after it.
\* A negative kth counts from the end; a kth outside [-len, len) raises
\* ValueError (the empty set).
argpartition(a, kth) ==
    LET len == Len0(a)
        k == IF kth < 0 THEN kth + len ELSE kth
    IN IF k < 0 \/ k >= len THEN {}
       ELSE {p \in Permutations0(len) :
                /\ \A j \in 0..(k - 1) : a[p[j]] <= a[p[k]]
                /\ \A j \in (k + 1)..(len - 1) : a[p[k]] <= a[p[j]]}

lowest_n_leverage(n) == {PySliceTo(p, n) : p \in argpartition(h, n)}

\* the slice taken from the wrong end of the partition
highest_n_leverage_first(n) == {PySliceTo(p, n) : p \in argpartition(h, -n)}

highest_n_leverage(n) == {PySliceFrom(p, -n) : p \in argpartition(h, -n)}

-----------------------------------------------------------------------------
(* Hierarchical clustering *)

\* Ward's merge cost of clusters A and B of the rows of x,
\* |A||B|/(|A|+|B|) * (mean(A) - mean(B))^2, as the fraction CostNum/CostDen
CostNum(x, A, B) ==
    LET d == Cardinality(B) * SumOver(x, A) - Cardinality(A) * SumOver(x, B)
    IN d * d

CostDen(A, B) ==
    Cardinality(A) * Cardinality(B) * (Cardinality(A) + Cardinality(B))

Pairs(P) == {pr \in P \X P : pr[1] # pr[2]}

\* the pairs of greatest cost
ward_max_pairs(x, P) ==
    {pr \in Pairs(P) : \A q \in Pairs(P) :
        CostNum(x, q[1], q[2]) * CostDen(pr[1], pr[2])
            <= CostNum(x, pr[1], pr[2]) * CostDen(q[1], q[2])}

\* the pairs of clusters the next merge may join: those of least cost
ward_min_pairs(x, P) ==
    {pr \in Pairs(P) : \A q \in Pairs(P) :
        CostNum(x, pr[1], pr[2]) * CostDen(q[1], q[2])
            <= CostNum(x, q[1], q[2]) * CostDen(pr[1], pr[2])}

\* the partitions into k clusters that merging from partition P can end in
RECURSIVE ward_tree(_, _, _)
ward_tree(x, P, k) ==
    IF Cardinality(P) <= k THEN {P}
    ELSE UNION {ward_tree(x, (P \ {pr[1], pr[2]}) \cup {pr[1] \cup pr[2]}, k) :
                    pr \in ward_min_pairs(x, P)}

\* AgglomerativeClustering(n_clusters).fit_predict(x): a label in
\* 0..n_clusters-1 for every row. Fewer than 2 rows, n_clusters < 1 and
\* n_clusters > rows raise ValueError (the empty set).
fit_predict(n_clusters, x) ==
    LET len == Len0(x)
    IN IF len < 2 \/ n_clusters < 1 \/ n_clusters > len THEN {}
       ELSE LET cuts == ward_tree(x, {{i} : i \in 0..(len - 1)}, n_clusters)
            IN {lab \in [0..(len - 1) -> 0..(n_clusters - 1)] :
                    {{i \in 0..(len - 1) : lab[i] = cl} : cl \in 0..(n_clusters - 1)}
                        \in cuts}

\* np.where(labels == cl)[0]: the rows labelled cl, in increasing order
where(labels, cl) ==
    LET S == {i \in DOMAIN labels : labels[i] = cl}
    IN CHOOSE f \in [0..(Cardinality(S) - 1) -> S] :
            \A i, j \in 0..(Cardinality(S) - 1) : i < j => f[i] < f[j]

\* |x[j] - mean(x)| in units of 1/len(x)
CentroidDist(x, j) == Abs(Len0(x) * x[j] - SumOver(x, DOMAIN x))

\* the first position of greatest distance to the mean
medoid_farthest(x) ==
    MinOf({j \in DOMAIN x : \A k \in DOMAIN x : CentroidDist(x, k) <= CentroidDist(x, j)})

\* np.argmin(cdist(x, mean(x))): the first position of least distance to the mean
medoid(x) ==
    MinOf({j \in DOMAIN x : \A k \in DOMAIN x : CentroidDist(x, j) <= CentroidDist(x, k)})

\* the medoid's position inside its cluster taken for its row index
cluster_surrogates_unmapped(labels, k) ==
    [cl \in 0..(k - 1) |->
        LET idx == where(labels, cl)
        IN medoid([j \in DOMAIN idx |-> X[idx[j]]])]

\* cl_idx = [np.where(clusters == cl)[0] for cl in range(n_eff)]
\* surrogates = [idx[self._medoid(self.X[idx])] for idx in cl_idx]
cluster_surrogates(labels, k) ==
    [cl \in 0..(k - 1) |->
        LET idx == where(labels, cl)
        IN idx[medoid([j \in DOMAIN idx |-> X[idx[j]]])]]

-----------------------------------------------------------------------------
(* Scoring *)

\* X[s] raises IndexError for an index outside [-N, N); np.min over no
\* surrogate raises ValueError
score_raises(s) ==
    \/ Len0(s) = 0
    \/ \E k \in DOMAIN s : s[k] < -N \/ s[k] >= N

\* Python's index i of an array of N rows, a negative one counted from the end
PyIndex(i) == IF i < 0 THEN i + N ELSE i

\* the distances summed without their leverage
score_unweighted(s) ==
    SumOver([i \in DOMAIN X |->
                MinOf({Abs(X[i] - X[PyIndex(s[k])]) : k \in DOMAIN s})],
            DOMAIN X)

\* the distance to the farthest surrogate in place of the nearest
score_farthest(s) ==
    SumOver([i \in DOMAIN X |->
                h[i] * MaxOf({Abs(X[i] - X[PyIndex(s[k])]) : k \in DOMAIN s})],
            DOMAIN X)

\* np.dot(h, np.min(cdist(X, X[s]), axis=1)) / N, in units of 1/(hden*N*N*sigma)
score(s) ==
    SumOver([i \in DOMAIN X |->
                h[i] * MinOf({Abs(X[i] - X[PyIndex(s[k])]) : k \in DOMAIN s})],
            DOMAIN X)

-----------------------------------------------------------------------------
(* Selection *)

Strategy == {"random", "lowest", "highest", "balanced", "hierarchical"}

\* a strategy value that is none of the enumeration's
OtherStrategy == "other"

\* np.random.choice(size, k, replace=False): k distinct indices in any order;
\* k < 0 and k > size raise ValueError (the empty set)
random_choice(size, k) ==
    IF k < 0 \/ k > size THEN {}
    ELSE {s \in [0..(k - 1) -> 0..(size - 1)] :
            \A i, j \in 0..(k - 1) : s[i] = s[j] => i = j}

\* round(n * X_size if n < 1 else n), n the fraction num/den
effective_n(n) ==
    IF n.num < n.den THEN PyRound(n.num * N, n.den) ELSE PyRound(n.num, n.den)

NoLabels == << >>

\* select with a final case that raises instead of drawing at random
select_strict(k, strategy) ==
    CASE strategy = "lowest" ->
            {[surrogates |-> s, clusters |-> NoLabels] : s \in lowest_n_leverage(k)}
      [] strategy = "highest" ->
            {[surrogates |-> s, clusters |-> NoLabels] : s \in highest_n_leverage(k)}
      [] strategy = "balanced" ->
            LET n_half == PyIntHalf(k)
            IN {[surrogates |-> Concat(hi, lo), clusters |-> NoLabels] :
                    hi \in highest_n_leverage(n_half),
                    lo \in lowest_n_leverage(k - n_half)}
      [] strategy = "hierarchical" ->
            {[surrogates |-> cluster_surrogates(lab, k), clusters |-> lab] :
                    lab \in fit_predict(k, X)}
      [] strategy = "random" ->
            {[surrogates |-> s, clusters |-> NoLabels] : s \in random_choice(N, k)}
      [] OTHER -> {}

\* the match statement of select: the surrogates each strategy can produce for
\* the effective count k, with the cluster labels they were read from
select_surrogates(k, strategy) ==
    CASE strategy = "lowest" ->
            {[surrogates |-> s, clusters |-> NoLabels] : s \in lowest_n_leverage(k)}
      [] strategy = "highest" ->
            {[surrogates |-> s, clusters |-> NoLabels] : s \in highest_n_leverage(k)}
      [] strategy = "balanced" ->
            LET n_half == PyIntHalf(k)
            IN {[surrogates |-> Concat(hi, lo), clusters |-> NoLabels] :
                    hi \in highest_n_leverage(n_half),
                    lo \in lowest_n_leverage(k - n_half)}
      [] strategy = "hierarchical" ->
            {[surrogates |-> cluster_surrogates(lab, k), clusters |-> lab] :
                    lab \in fit_predict(k, X)}
      [] OTHER ->
            {[surrogates |-> s, clusters |-> NoLabels] : s \in random_choice(N, k)}

-----------------------------------------------------------------------------
(* The state machine *)

DataSets == UNION {[0..(k - 1) -> 0..MaxVal] : k \in 1..MaxN}

\* the values of n tried: the counts 0..MaxN+2, the fractions 1/8, 1/2 and
\* 5/8, and 3/2
NInputs ==
    {[num |-> k, den |-> 1] : k \in 0..(MaxN + 2)}
        \cup {[num |-> k, den |-> 8] : k \in {1, 4, 5}}
        \cup {[num |-> 3, den |-> 2]}

NoCall == [n |-> [num |-> 0, den |-> 1], strategy |-> "none"]

\* the increasing index array of the set S
SortedArr(S) ==
    CHOOSE f \in [0..(Cardinality(S) - 1) -> S] :
        \A i, j \in 0..(Cardinality(S) - 1) : i < j => f[i] < f[j]

\* the index arrays handed to score: every set of rows in increasing order
\* (the empty one too), and every array of one or two indices in [-N-1, N]
ScoreInputs ==
    {SortedArr(S) : S \in SUBSET (0..(N - 1))}
        \cup UNION {[0..(k - 1) -> (-N - 1)..N] : k \in 1..2}

\* no matrix of several columns is under construction
CovIdle ==
    /\ inst = "off"
    /\ matrix = << >>
    /\ hat = << >>
    /\ hatden = 0

NoClick ==
    [include_auto |-> FALSE, n |-> [num |-> 0, den |-> 1], strats |-> {},
     include_user |-> FALSE, n_user |-> 0]

NoInputs ==
    [include_auto |-> FALSE, n |-> [num |-> 0, den |-> 1], strats |-> {},
     include_user |-> FALSE, user_ids |-> 0]

\* no dashboard session is in the picture
DashIdle ==
    /\ RANDOM_NS = << >>
    /\ desc_rows = 0
    /\ app_surr = {}
    /\ app_sim = << >>
    /\ clicked = "none"
    /\ last = NoClick
    /\ inp = NoInputs
    /\ stale = FALSE

NoCalc == [state |-> "none", rows |-> << >>, with_tsne |-> FALSE]

\* no descriptor calculation is in the picture
CalcIdle ==
    /\ records = << >>
    /\ calc = NoCalc

\* no directory, or the contents of the two parquet files of a directory
NoDir == [data |-> 0, desc |-> 0]

NoSave == [name |-> << >>, data |-> 0, desc |-> 0, state |-> "none"]

\* the data folder is left out of the picture
FilesIdle ==
    /\ disk = << >>
    /\ log = 0
    /\ clock = 0
    /\ save = NoSave

\* no modal is in the picture
ModalIdle ==
    /\ datasets = {}
    /\ modal = "closed"
    /\ up_name = << >>
    /\ temp = << >>
    /\ id_col = "none"
    /\ qrs_col = "none"
    /\ notified = << >>
    /\ up = "none"
    /\ app_data = NoDir

AppIdle ==
    /\ CalcIdle
    /\ FilesIdle
    /\ ModalIdle

NoRef == [seed |-> -1, n |-> [num |-> 0, den |-> 1], surrogates |-> << >>]

\* the global generator is left out of the picture
RngIdle ==
    /\ rng = 0
    /\ seeded = -1
    /\ run_seed = -1
    /\ ref = NoRef

NoSim == [scores |-> << >>, ns |-> << >>]

\* no simulation is running
SimIdle ==
    /\ reps = 0
    /\ sim_pc = "idle"
    /\ sim_ns = << >>
    /\ scores = << >>
    /\ drawn_at = << >>
    /\ sim = NoSim

Init ==
    /\ data \in DataSets
    /\ eng = "new"
    /\ X = << >>
    /\ h = << >>
    /\ op = "none"
    /\ call = NoCall
    /\ subset = << >>
    /\ n_eff = 0
    /\ outcome = "none"
    /\ surrogates = << >>
    /\ clusters = NoLabels
    /\ lard = 0
    /\ CovIdle
    /\ SimIdle
    /\ RngIdle
    /\ DashIdle
    /\ AppIdle

\* SurrogateSelection(data): np.linalg.inv raises LinAlgError when X^T X is
\* singular, and then there is no instance
Construct ==
    /\ eng = "new"
    /\ LET x == fit_transform(data)
       IN IF gram(x) = 0
          THEN /\ eng' = "failed"
               /\ UNCHANGED <<X, h>>
          ELSE /\ eng' = "ready"
               /\ X' = x
               /\ h' = leverage(x)
    /\ UNCHANGED <<data, callvars, notengine>>

Raise(k) ==
    /\ n_eff' = k
    /\ outcome' = "raised"
    /\ surrogates' = << >>
    /\ clusters' = NoLabels
    /\ lard' = 0

\* an in-place sort of the leverage vector
EngineReordered ==
    /\ UNCHANGED <<eng, data, X>>
    /\ h' = [i \in DOMAIN h |->
                CHOOSE v \in Range(h) :
                    /\ Cardinality({j \in DOMAIN h : h[j] < v}) <= i
                    /\ Cardinality({j \in DOMAIN h : h[j] <= v}) > i]

\* select and score assign no attribute of self
KeepEngine == UNCHANGED <<eng, data, X, h>>

\* a call on one engine touches nothing outside that engine and its result
Elsewhere == UNCHANGED notengine

\* selector.select(n, strategy), called by a caller that holds no result
Select(n, strategy) ==
    /\ eng = "ready"
    /\ outcome = "none"
    /\ op' = "select"
    /\ call' = [n |-> n, strategy |-> strategy]
    /\ subset' = << >>
    /\ LET k == effective_n(n)
           outs == select_surrogates(k, strategy)
       IN IF outs = {}
          THEN Raise(k)
          ELSE \E o \in outs :
                IF score_raises(o.surrogates)
                THEN Raise(k)
                ELSE /\ n_eff' = k
                     /\ outcome' = "returned"
                     /\ surrogates' = o.surrogates
                     /\ clusters' = o.clusters
                     /\ lard' = score(o.surrogates)
    /\ KeepEngine
    /\ Elsewhere

\* selector.score(s), called by a caller that holds no result
Score(s) ==
    /\ eng = "ready"
    /\ outcome = "none"
    /\ op' = "score"
    /\ call' = NoCall
    /\ subset' = s
    /\ n_eff' = 0
    /\ surrogates' = << >>
    /\ clusters' = NoLabels
    /\ IF score_raises(s)
       THEN /\ outcome' = "raised"
            /\ lard' = 0
       ELSE /\ outcome' = "returned"
            /\ lard' = score(s)
    /\ KeepEngine
    /\ Elsewhere

\* the caller is done with the result of the last call; the engine keeps no
\* reference to it
Discard ==
    /\ outcome # "none"
    /\ op' = "none"
    /\ call' = NoCall
    /\ subset' = << >>
    /\ n_eff' = 0
    /\ outcome' = "none"
    /\ surrogates' = << >>
    /\ clusters' = NoLabels
    /\ lard' = 0
    /\ KeepEngine
    /\ Elsewhere

Next ==
    \/ Construct
    \/ Discard
    \/ \E n \in NInputs, strategy \in Strategy \cup {OtherStrategy} :
            Select(n, strategy)
    \/ \E s \in ScoreInputs : Score(s)

Spec == Init /\ [][Next]_vars

-----------------------------------------------------------------------------
(* Properties of select *)

Returned == outcome = "returned"

Points == 0..(N - 1)

Selected == Range(surrogates)

Distinct(a) == \A i, j \in DOMAIN a : a[i] = a[j] => i = j

ValidCount == n_eff \in 1..N

\* C1: for every strategy of the enumeration and every effective count in
\* [1, N], select returns exactly n_eff indices, pairwise distinct and all in
\* [0, N).
C1_SelectReturnsDistinctIndices ==
    (call.strategy \in Strategy /\ ValidCount) =>
        /\ Returned
        /\ Len0(surrogates) = n_eff
        /\ Distinct(surrogates)
        /\ Selected \subseteq Points

\* C2: n >= 1 is taken as the count itself; 0 < n < 1 resolves to n*N rounded
\* to a nearest integer, and to 1 when that is 0.
C2_EffectiveCount ==
    LET n == call.n
    IN (call.strategy # "none" /\ n.num > 0) =>
        /\ (n.den = 1 /\ n.num >= 1) => n_eff = n.num
        /\ n.num < n.den =>
            /\ n_eff >= 1
            /\ \/ 2 * Abs(n_eff * n.den - n.num * N) <= n.den
               \/ n_eff = 1 /\ 2 * n.num * N <= n.den

\* C3: for every strategy, select raises whenever the effective count is 0 or
\* exceeds N, and returns no result.
C3_InvalidCountRaises ==
    (call.strategy \in Strategy /\ (n_eff = 0 \/ n_eff > N)) =>
        outcome = "raised"

\* C4: for every effective count in [1, N], select(n, LOWEST) returns n_eff
\* indices and no returned index has a leverage above that of an index that is
\* not returned.
C4_LowestSelectsSmallestLeverage ==
    (call.strategy = "lowest" /\ ValidCount) =>
        /\ Returned
        /\ Len0(surrogates) = n_eff
        /\ Distinct(surrogates)
        /\ \A i \in Selected, j \in Points \ Selected : h[i] <= h[j]

\* C5: for every effective count in [1, N], select(n, HIGHEST) returns n_eff
\* indices and no returned index has a leverage below that of an index that is
\* not returned.
C5_HighestSelectsLargestLeverage ==
    (call.strategy = "highest" /\ ValidCount) =>
        /\ Returned
        /\ Len0(surrogates) = n_eff
        /\ Distinct(surrogates)
        /\ Selected \subseteq Points
        /\ \A i \in Selected, j \in Points \ Selected : h[i] >= h[j]

\* C5 happens: HIGHEST returned 2 of 3 points and left out one of strictly
\* lower leverage.
C5_Witness ==
    /\ call.strategy = "highest"
    /\ Returned
    /\ N = 3
    /\ n_eff = 2
    /\ \E j \in Points \ Selected : \A i \in Selected : h[j] < h[i]

\* C6: for every effective count in [1, N], select(n, BALANCED) returns the
\* floor(n_eff/2) indices of highest leverage followed by the ceil(n_eff/2)
\* indices of lowest leverage; when the leverages are pairwise distinct and
\* n_eff is even the two halves share no index.
C6_BalancedHalves ==
    (call.strategy = "balanced" /\ ValidCount) =>
        LET nh == n_eff \div 2
            hi == {surrogates[k] : k \in DOMAIN surrogates \cap 0..(nh - 1)}
            lo == {surrogates[k] : k \in DOMAIN surrogates \cap nh..(n_eff - 1)}
        IN /\ Returned
           /\ Len0(surrogates) = n_eff
           /\ Cardinality(hi) = nh
           /\ Cardinality(lo) = n_eff - nh
           /\ \A i \in hi, j \in Points \ hi : h[i] >= h[j]
           /\ \A i \in lo, j \in Points \ lo : h[i] <= h[j]
           /\ ((\A i, j \in Points : h[i] = h[j] => i = j) /\ n_eff % 2 = 0)
                   => hi \cap lo = {}

Members(cl) == {i \in DOMAIN clusters : clusters[i] = cl}

\* C7: select(n, HIERARCHICAL) with an effective count in [1, N] labels all N
\* points with n_eff clusters, none empty, and returns n_eff indices, exactly
\* one of each cluster; a cluster of one member contributes it, and with
\* n_eff = N every index is returned.
C7_OneSurrogatePerCluster ==
    (call.strategy = "hierarchical" /\ ValidCount) =>
        /\ Returned
        /\ DOMAIN clusters = Points
        /\ Range(clusters) = 0..(n_eff - 1)
        /\ Len0(surrogates) = n_eff
        /\ Selected \subseteq Points
        /\ \A cl \in 0..(n_eff - 1) :
              /\ Cardinality({k \in DOMAIN surrogates : clusters[surrogates[k]] = cl}) = 1
              /\ Cardinality(Members(cl)) = 1 => Members(cl) \subseteq Selected
        /\ n_eff = N => Selected = Points

\* C7 happens: three points were split into a cluster of two and a cluster of
\* one.
C7_Witness ==
    /\ call.strategy = "hierarchical"
    /\ Returned
    /\ N = 3
    /\ n_eff = 2
    /\ \E cl \in 0..1 : Cardinality(Members(cl)) = 2

\* the distance of point i to the mean of the points S, in units of
\* 1/(|S|*N*sigma)
DistToCentroid(i, S) == Abs(Cardinality(S) * X[i] - SumOver(X, S))

\* C8: the index selected for a cluster is a member of it, and no member of
\* the cluster is closer to the cluster's centroid.
C8_SurrogateIsMedoid ==
    (call.strategy = "hierarchical" /\ Returned) =>
        \A cl \in 0..(n_eff - 1) :
            /\ surrogates[cl] \in Members(cl)
            /\ \A m \in Members(cl) :
                  DistToCentroid(surrogates[cl], Members(cl))
                      <= DistToCentroid(m, Members(cl))

\* C8 happens: a cluster has a member strictly farther from its centroid than
\* the index selected for it.
C8_Witness ==
    /\ call.strategy = "hierarchical"
    /\ Returned
    /\ \E cl \in 0..(n_eff - 1) : \E m \in Members(cl) :
          DistToCentroid(surrogates[cl], Members(cl)) < DistToCentroid(m, Members(cl))

\* the splits of the points into two groups, every distance inside a group
\* less than half of every distance between the groups
SeparatedGroups ==
    {G \in SUBSET Points :
        /\ G # {}
        /\ G # Points
        /\ \A i, j \in Points : \A k \in G, l \in Points \ G :
              ((i \in G) = (j \in G)) => 2 * Abs(X[i] - X[j]) < Abs(X[k] - X[l])}

PairArr(c, d) == [k \in 0..1 |-> IF k = 0 THEN c ELSE d]

C10_UnknownStrategyDrawsAtRandom ==
    (call.strategy = OtherStrategy /\ ValidCount) =>
        /\ Returned
        /\ Len0(surrogates) = n_eff
        /\ Distinct(surrogates)
        /\ Selected \subseteq Points
        /\ lard = score(surrogates)

\* C10 happens: a call with an unknown strategy returned two indices.
C10_Witness ==
    /\ call.strategy = OtherStrategy
    /\ Returned
    /\ n_eff = 2
    /\ Len0(surrogates) = 2

-----------------------------------------------------------------------------
(* Properties of score *)

Scored == op = "score" /\ Returned

InRange(s) == Range(s) \subseteq Points

\* the distance between points i and m, in units of 1/(N*sigma)
Dist(i, m) == Abs(X[i] - X[m])

\* C11: score(subset) is the sum over all N points of the point's leverage
\* times its distance to a nearest subset member (the factor 1/N is part of the
\* unit the score is kept in); a subset member contributes 0.
C11_ScoreIsWeightedNearestDistance ==
    (Scored /\ InRange(subset)) =>
        \E nearest \in [Points -> Range(subset)] :
            /\ \A i \in Points, m \in Range(subset) : Dist(i, nearest[i]) <= Dist(i, m)
            /\ \A i \in Range(subset) : Dist(i, nearest[i]) = 0
            /\ lard = SumOver([i \in Points |-> h[i] * Dist(i, nearest[i])], Points)

\* C11 happens: a proper subset was scored, and a point of positive leverage
\* lies away from every member.
C11_Witness ==
    /\ Scored
    /\ InRange(subset)
    /\ Len0(subset) = 2
    /\ \E i \in Points : h[i] > 0 /\ \A m \in Range(subset) : Dist(i, m) > 0

\* C12 as stated: the score is 0 exactly when the subset is the full index
\* set.
C12_ZeroExactlyForFullSet ==
    (Scored /\ InRange(subset)) => (lard = 0 <=> Range(subset) = Points)

\* C12, amended: the full index set scores 0, no score is negative, and a
\* subset scores 0 exactly when every point that has no subset member at
\* distance 0 has leverage 0.
C12_ZeroExactlyWhenCovered ==
    (Scored /\ InRange(subset)) =>
        /\ Range(subset) = Points => lard = 0
        /\ lard >= 0
        /\ lard = 0 <=>
              \A i \in Points : h[i] = 0 \/ \E m \in Range(subset) : Dist(i, m) = 0

\* C12 happens: a proper subset scored 0.
C12_Witness ==
    /\ Scored
    /\ InRange(subset)
    /\ Range(subset) # Points
    /\ lard = 0

Append0(a, j) == [i \in 0..Len0(a) |-> IF i < Len0(a) THEN a[i] ELSE j]

\* C13: for every non-empty subset S and every index j in [0, N), the score of
\* S with j added is at most the score of S.
C13_ScoreMonotone ==
    (Scored /\ InRange(subset)) =>
        \A j \in Points : score(Append0(subset, j)) <= lard

\* C13 happens: a subset was scored that an added index strictly improves.
C13_Witness ==
    /\ Scored
    /\ InRange(subset)
    /\ \E j \in Points : score(Append0(subset, j)) < lard

\* C14: score raises whenever the subset is empty or holds an index outside
\* [0, N), a negative one included, and returns no number.
C14_InvalidSubsetRaises ==
    (op = "score" /\ (Len0(subset) = 0 \/ ~InRange(subset))) => outcome = "raised"

-----------------------------------------------------------------------------
(* Properties of the engine's state *)

\* C16: once constructed, the engine's standardized matrix and leverage vector
\* are changed by no call, returned or raised, and the engine stays usable.
C16_EngineImmutable ==
    [][eng = "ready" => (eng' = "ready" /\ X' = X /\ h' = h)]_vars

\* C16 happens: a call on a constructed engine has raised.
C16_Witness ==
    /\ eng = "ready"
    /\ outcome = "raised"
    /\ op = "select"

-----------------------------------------------------------------------------
(* Construction on a matrix of one or two columns                           *)
(*                                                                         *)
(* The leverage diag(X (X^T X)^-1 X^T) does not change when a column of X   *)
(* is multiplied by a positive number, so it is computed from the centred   *)
(* columns in units of 1/(N*sigma_j) each: with G = X^T X in those units,   *)
(* the leverage of row i is (x_i^T adj(G) x_i) / det(G), two integers.      *)

NCols(m) == Len0(m)

NRows(m) == Len0(m[0])

\* StandardScaler().fit_transform(data), column by column
fit_transform_columns(m) == [j \in DOMAIN m |-> fit_transform(m[j])]

\* one entry of X^T X
dot(u, v) == SumOver([i \in DOMAIN u |-> u[i] * v[i]], DOMAIN u)

\* the determinant of X^T X
det_gram(x) ==
    IF NCols(x) = 1
    THEN dot(x[0], x[0])
    ELSE dot(x[0], x[0]) * dot(x[1], x[1]) - dot(x[0], x[1]) * dot(x[0], x[1])

\* the hat matrix's diagonal computed from the diagonal of the inverse only
hat_diagonal_uncorrelated(x) ==
    IF NCols(x) = 1
    THEN [i \in DOMAIN x[0] |-> x[0][i] * x[0][i]]
    ELSE [i \in DOMAIN x[0] |->
            dot(x[1], x[1]) * x[0][i] * x[0][i]
                + dot(x[0], x[0]) * x[1][i] * x[1][i]]

\* np.diagonal(X (X^T X)^-1 X^T), in units of 1/det_gram(x)
hat_diagonal(x) ==
    IF NCols(x) = 1
    THEN [i \in DOMAIN x[0] |-> x[0][i] * x[0][i]]
    ELSE [i \in DOMAIN x[0] |->
            dot(x[1], x[1]) * x[0][i] * x[0][i]
                - 2 * dot(x[0], x[1]) * x[0][i] * x[1][i]
                + dot(x[0], x[0]) * x[1][i] * x[1][i]]

\* The LU factorization inside np.linalg.inv raises LinAlgError only when a
\* pivot is exactly 0.0.  For a singular X^T X the computed pivot is 0.0 when
\* a column is constant (the standardized column is all 0.0), when the two
\* raw columns are equal (the standardized columns are equal bit for bit) or
\* when there are at most two rows (every standardized value is 0.0 or +-1.0);
\* otherwise the rounding of the means, the scales and the products decides.
exactly_zero_pivot(m) ==
    \/ NRows(m) <= 2
    \/ \E j \in DOMAIN m : \A i, k \in DOMAIN m[j] : m[j][i] = m[j][k]
    \/ NCols(m) = 2 /\ m[0] = m[1]

\* the matrices of d columns and k rows
Matrices(d, k) == [0..(d - 1) -> [0..(k - 1) -> 0..MaxEntry]]

InitCov ==
    /\ \E d \in 1..2, k \in 1..MaxRows : matrix \in Matrices(d, k)
    /\ inst = "new"
    /\ hat = << >>
    /\ hatden = 0
    /\ data = << >>
    /\ eng = "off"
    /\ X = << >>
    /\ h = << >>
    /\ op = "none"
    /\ call = NoCall
    /\ subset = << >>
    /\ n_eff = 0
    /\ outcome = "none"
    /\ surrogates = << >>
    /\ clusters = NoLabels
    /\ lard = 0
    /\ SimIdle
    /\ RngIdle
    /\ DashIdle
    /\ AppIdle

\* SurrogateSelection(data) on a matrix: the exception of np.linalg.inv
\* leaves no instance; an inverse that rounding made up leaves an instance
\* whose leverages are whatever that inverse gives
ConstructCov ==
    /\ inst = "new"
    /\ LET x == fit_transform_columns(matrix)
       IN IF det_gram(x) # 0
          THEN /\ inst' = "ready"
               /\ hat' = hat_diagonal(x)
               /\ hatden' = det_gram(x)
          ELSE \/ /\ inst' = "failed"
                  /\ UNCHANGED <<hat, hatden>>
               \/ /\ ~exactly_zero_pivot(matrix)
                  /\ inst' = "ready"
                  /\ hat' \in [DOMAIN matrix[0] -> (-MaxInexact)..MaxInexact]
                  /\ hatden' = 1
    /\ UNCHANGED <<matrix, engvars, callvars, simvars, rngvars, dashvars, appvars>>

NextCov == ConstructCov

SpecCov == InitCov /\ [][NextCov]_vars

Constructed == inst \in {"ready", "failed"}

Singular == det_gram(fit_transform_columns(matrix)) = 0

\* C18: constructing the engine on a matrix whose X^T X is not invertible
\* (identical columns, collinear columns, a constant column, no more rows
\* than columns) raises, and there is no usable instance.
C18_SingularRaises ==
    (Constructed /\ Singular) => inst = "failed"

\* C19: for a matrix of N rows and D < N columns of full column rank the
\* leverage vector has one entry per row, each between 0 and 1, the entries
\* sum to D, rows of equal descriptors have equal entries, and the entry of
\* a row is 0 exactly when the row lies at the centroid.
C19_LeverageSumsToD ==
    (inst = "ready" /\ ~Singular /\ NCols(matrix) < NRows(matrix)) =>
        /\ DOMAIN hat = 0..(NRows(matrix) - 1)
        /\ hatden > 0
        /\ \A i \in DOMAIN hat : 0 <= hat[i] /\ hat[i] <= hatden
        /\ SumOver(hat, DOMAIN hat) = NCols(matrix) * hatden
        /\ \A i, k \in DOMAIN hat :
                (\A j \in DOMAIN matrix : matrix[j][i] = matrix[j][k])
                    => hat[i] = hat[k]
        /\ \A i \in DOMAIN hat :
                hat[i] = 0 <=>
                    \A j \in DOMAIN matrix :
                        NRows(matrix) * matrix[j][i]
                            = SumOver(matrix[j], DOMAIN matrix[j])

\* C19 happens: two correlated columns of full rank on more than two rows,
\* every row with a leverage above 0.
C19_Witness ==
    /\ inst = "ready"
    /\ ~Singular
    /\ NCols(matrix) = 2
    /\ NRows(matrix) > 2
    /\ dot(fit_transform_columns(matrix)[0], fit_transform_columns(matrix)[1]) # 0
    /\ \A i \in DOMAIN hat : hat[i] > 0

-----------------------------------------------------------------------------
(* The random source: np.random.choice draws from numpy's global generator *)

\* the position of the permutation p among the permutations of its length
PermCode(p) ==
    LET n == Len0(p)
        F[i \in 0..n] == IF i = 0 THEN 0 ELSE F[i - 1] * n + p[i - 1]
    IN F[n]

\* for every number of elements and every state of the generator, the
\* permutation that state produces
PermutationOf ==
    [size \in 1..MaxN |->
        [r \in 0..MaxSeed |->
            LET all == Permutations0(size)
            IN CHOOSE p \in all :
                    Cardinality({q \in all : PermCode(q) < PermCode(p)})
                        = r % Cardinality(all)]]

\* the permutation a generator in state r produces for size elements
permutation(r, size) == PermutationOf[size][r]

\* np.random.choice(size, k, replace=False) with the global generator in
\* state r: the first k entries of the permutation that state produces
choice(r, size, k) ==
    IF k < 0 \/ k > size THEN {}
    ELSE {[i \in 0..(k - 1) |-> permutation(r, size)[i]]}

\* the state of the generator after one draw
advance(r) == (r + 1) % (MaxSeed + 1)

RngSizes == {[num |-> k, den |-> 1] : k \in 1..MaxN}

\* a draw depends on the number of rows only: one data set per number of
\* rows, the column 0, 1, .., k-1
RngDataSets == {[i \in 0..(k - 1) |-> i] : k \in 1..MaxN}

InitRng ==
    /\ data \in RngDataSets
    /\ eng = "new"
    /\ X = << >>
    /\ h = << >>
    /\ op = "none"
    /\ call = NoCall
    /\ subset = << >>
    /\ n_eff = 0
    /\ outcome = "none"
    /\ surrogates = << >>
    /\ clusters = NoLabels
    /\ lard = 0
    /\ CovIdle
    /\ SimIdle
    /\ DashIdle
    /\ AppIdle
    /\ rng \in 0..MaxSeed
    /\ seeded = -1
    /\ run_seed = -1
    /\ ref = NoRef

\* np.random.seed(s), the only way the program leaves to fix the source
Seed(s) ==
    /\ rng' = s
    /\ seeded' = s
    /\ UNCHANGED <<run_seed, ref>>
    /\ UNCHANGED <<engvars, callvars, covvars, simvars, dashvars, appvars>>

\* any other engine or caller draws from np.random
OtherDraw ==
    /\ rng' = advance(rng)
    /\ UNCHANGED <<seeded, run_seed, ref>>
    /\ UNCHANGED <<engvars, callvars, covvars, simvars, dashvars, appvars>>

\* selector.select(n, Strategy.RANDOM) by a caller that seeded its run, as
\* a single selection or as one selection of _simulate_random
SelectRandom(n) ==
    /\ eng = "ready"
    /\ seeded # -1
    /\ op' = "select"
    /\ call' = [n |-> n, strategy |-> "random"]
    /\ subset' = << >>
    /\ run_seed' = seeded
    /\ seeded' = -1
    /\ LET k == effective_n(n)
           outs == choice(rng, N, k)
       IN IF outs = {}
          THEN /\ Raise(k)
               /\ UNCHANGED <<rng, ref>>
          ELSE \E o \in outs :
                /\ rng' = advance(rng)
                /\ IF score_raises(o)
                   THEN /\ Raise(k)
                        /\ UNCHANGED ref
                   ELSE /\ n_eff' = k
                        /\ outcome' = "returned"
                        /\ surrogates' = o
                        /\ clusters' = NoLabels
                        /\ lard' = score(o)
                        /\ ref' = IF ref = NoRef
                                  THEN [seed |-> seeded, n |-> n, surrogates |-> o]
                                  ELSE ref
    /\ KeepEngine
    /\ UNCHANGED <<covvars, simvars, dashvars, appvars>>

NextRng ==
    \/ Construct
    \/ \E s \in 0..MaxSeed : Seed(s)
    \/ OtherDraw
    \/ \E n \in RngSizes : SelectRandom(n)

SpecRng == InitRng /\ [][NextRng]_vars

\* C17: a run of select(n, RANDOM) made with the same seed and the same n
\* as the first seeded run returns the indices that run returned, whatever
\* other callers drew in between.
C17_SeededRunsRepeat ==
    (/\ op = "select"
     /\ outcome = "returned"
     /\ ref # NoRef
     /\ run_seed = ref.seed
     /\ call.n = ref.n) => surrogates = ref.surrogates

-----------------------------------------------------------------------------
(* The baseline simulator, _simulate_random of src/dashboard/sidebar.py *)

\* np.tile(a, r): the whole array, r times over
np_tile(a, r) == [i \in 0..(Len0(a) * r - 1) |-> a[i % Len0(a)]]

\* np.repeat(a, r): every element r times, in order
np_repeat(a, r) == [i \in 0..(Len0(a) * r - 1) |-> a[i \div r]]

\* the sizes tried: the counts 0, 1, 2, MaxN and MaxN+1 and the fraction 1/2
SimSizes ==
    {[num |-> k, den |-> 1] : k \in {0, 1, 2, MaxN, MaxN + 1}}
        \cup {[num |-> 1, den |-> 2]}

SimInputs == UNION {[0..(k - 1) -> SimSizes] : k \in 0..MaxSizes}

\* the simulator reaches the data through select and score only: one data
\* set per multiset of values, smallest value 0, in increasing order
SimDataSets ==
    {d \in DataSets :
        /\ d[0] = 0
        /\ \A i, j \in DOMAIN d : i < j => d[i] <= d[j]}

InitSim ==
    /\ data \in SimDataSets
    /\ eng = "new"
    /\ X = << >>
    /\ h = << >>
    /\ op = "none"
    /\ call = NoCall
    /\ subset = << >>
    /\ n_eff = 0
    /\ outcome = "none"
    /\ surrogates = << >>
    /\ clusters = NoLabels
    /\ lard = 0
    /\ CovIdle
    /\ DashIdle
    /\ AppIdle
    /\ rng \in 0..MaxSeed
    /\ seeded = -1
    /\ run_seed = -1
    /\ ref = NoRef
    /\ reps \in 1..MaxReps
    /\ sim_pc = "idle"
    /\ sim_ns = << >>
    /\ scores = << >>
    /\ drawn_at = << >>
    /\ sim = NoSim

\* _simulate_random(selector, ns) is entered: scores = []
Simulate(ns) ==
    /\ eng = "ready"
    /\ sim_pc = "idle"
    /\ sim_pc' = "running"
    /\ sim_ns' = ns
    /\ scores' = << >>
    /\ drawn_at' = << >>
    /\ UNCHANGED <<reps, sim>>
    /\ UNCHANGED <<engvars, callvars, covvars, rngvars, dashvars, appvars>>

\* one pass of the inner comprehension:
\* selector.select(n, SurrogateSelection.Strategy.RANDOM)[1] for the size n
\* the outer loop is at; an exception of select leaves _simulate_random
SimulateDraw ==
    /\ sim_pc = "running"
    /\ Len0(scores) < Len0(sim_ns) * reps
    /\ LET n == sim_ns[Len0(scores) \div reps]
           outs == choice(rng, N, effective_n(n))
       IN IF outs = {}
          THEN /\ sim_pc' = "raised"
               /\ UNCHANGED <<scores, drawn_at, rng>>
          ELSE \E o \in outs :
                /\ rng' = advance(rng)
                /\ IF score_raises(o)
                   THEN /\ sim_pc' = "raised"
                        /\ UNCHANGED <<scores, drawn_at>>
                   ELSE /\ sim_pc' = "running"
                        /\ scores' = Append0(scores, score(o))
                        /\ drawn_at' = Append0(drawn_at, n)
    /\ UNCHANGED <<reps, sim_ns, sim>>
    /\ UNCHANGED <<seeded, run_seed, ref>>
    /\ UNCHANGED <<engvars, callvars, covvars, dashvars, appvars>>

\* return {'scores': scores, 'ns': np.repeat(ns, RANDOM_REPS)}
SimulateReturn ==
    /\ sim_pc = "running"
    /\ Len0(scores) = Len0(sim_ns) * reps
    /\ sim_pc' = "returned"
    /\ sim' = [scores |-> scores, ns |-> np_repeat(sim_ns, reps)]
    /\ UNCHANGED <<reps, sim_ns, scores, drawn_at>>
    /\ UNCHANGED <<engvars, callvars, covvars, rngvars, dashvars, appvars>>

NextSim ==
    \/ Construct
    \/ \E ns \in SimInputs : Simulate(ns)
    \/ SimulateDraw
    \/ SimulateReturn

SpecSim == InitSim /\ [][NextSim]_vars

\* C15: the simulator that returns, given k sizes and R repetitions,
\* returns k*R scores and k*R sizes; sample j carries the size its selection
\* was made at; every size of the list has exactly R samples per occurrence
\* in the list; every score is at least 0.
C15_SimulatorSamples ==
    sim_pc = "returned" =>
        /\ Len0(sim.scores) = Len0(sim_ns) * reps
        /\ DOMAIN sim.ns = DOMAIN sim.scores
        /\ DOMAIN drawn_at = DOMAIN sim.scores
        /\ \A j \in DOMAIN sim.scores :
                /\ sim.ns[j] = drawn_at[j]
                /\ sim.scores[j] >= 0
        /\ \A n \in Range(sim_ns) :
                Cardinality({j \in DOMAIN sim.ns : sim.ns[j] = n})
                    = reps * Cardinality({i \in DOMAIN sim_ns : sim_ns[i] = n})

\* C15 happens: different sizes, several repetitions each, one sample per
\* size and repetition returned, not all of one score.
C15_Witness ==
    /\ sim_pc = "returned"
    /\ reps = MaxReps
    /\ Len0(sim_ns) = MaxSizes
    /\ sim_ns[0] # sim_ns[1]
    /\ Len0(sim.scores) = MaxSizes * MaxReps
    /\ \E i, j \in DOMAIN sim.scores : sim.scores[i] # sim.scores[j]

-----------------------------------------------------------------------------
(* The Select click of the sidebar, select of src/dashboard/sidebar.py     *)
(*                                                                         *)
(* The data set is kept by its number of rows, and the engine by which     *)
(* calls of select raise for that number of rows; the descriptors of a     *)
(* loaded data set are taken to have an invertible X^T X.  A size is the   *)
(* fraction num/den, as in the calls of select above.                      *)

\* RANDOM_NS = [0.01, 0.1, 0.2, 0.5], the list at import
ReferenceNs ==
    [i \in 0..3 |->
        [num |-> (CASE i = 0 -> 1 [] i = 1 -> 10 [] i = 2 -> 20 [] OTHER -> 50),
         den |-> 100]]

\* DEFAULT_N = 0.2
DEFAULT_N == [num |-> 20, den |-> 100]

\* n if n >= 1 else round(desc().shape[0] * n)
int_n(n, rows) ==
    IF n.num >= n.den THEN PyRound(n.num, n.den) ELSE PyRound(n.num * rows, n.den)

\* whether selector.select(k, strategy) raises on a data set of that many
\* rows: the index arithmetic of _lowest_n_leverage, _highest_n_leverage,
\* n_clusters and np.random.choice, and np.min over no member in score
select_raises(rows, k, strategy) ==
    CASE strategy = "lowest" -> k >= rows \/ k = 0
      [] strategy = "highest" -> k > rows
      [] strategy = "balanced" -> PyIntHalf(k) > rows \/ k - PyIntHalf(k) >= rows
      [] strategy = "hierarchical" -> k > rows \/ k = 0
      [] OTHER -> k > rows \/ k = 0

\* the one-column engine above raises in select exactly when select_raises
\* says so (an invariant of Spec)
SelectRaisesAgrees ==
    op = "select" =>
        (outcome = "raised" <=> select_raises(N, n_eff, call.strategy))

\* ns after the appends of lines 207-210: the same list object as RANDOM_NS
appended(ns, include_auto, n, include_user, n_user) ==
    LET with_user == IF include_user /\ n_user > 0
                     THEN Append0(ns, [num |-> n_user, den |-> 1])
                     ELSE ns
    IN IF include_auto THEN Append0(with_user, n) ELSE with_user

\* sorted([n if n >= 1 else round(rows * n) for n in list(set(ns))])
sorted_unique_int_ns(ns, rows) ==
    LET distinct == Range(ns)
    IN [i \in 0..(Cardinality(distinct) - 1) |->
            CHOOSE v \in {int_n(n, rows) : n \in distinct} :
                /\ Cardinality({n \in distinct : int_n(n, rows) < v}) <= i
                /\ Cardinality({n \in distinct : int_n(n, rows) <= v}) > i]

\* the values of n tried: an empty or zero field, the default, another
\* fraction, two counts, a count above every data set
DashNs ==
    {[num |-> 0, den |-> 1], DEFAULT_N, [num |-> 30, den |-> 100],
     [num |-> 5, den |-> 1], [num |-> 10, den |-> 1], [num |-> 200, den |-> 1]}

DashStrats == {{}, {"hierarchical"}, {"lowest", "highest"}}

DashUsers == {0, 2}

RowCounts == {0, 20, 100}

\* the inputs as dashboard_sidebar creates them and as clear means to leave
\* them; user_ids is the number of rows the text of user_ids names, which
\* is 0 for the empty text (the text is taken to name rows of every data
\* set)
DefaultInputs ==
    [include_auto |-> TRUE, n |-> DEFAULT_N, strats |-> {"hierarchical"},
     include_user |-> FALSE, user_ids |-> 0]

InitDash ==
    /\ RANDOM_NS = ReferenceNs
    /\ desc_rows = 0
    /\ app_surr = {}
    /\ app_sim = << >>
    /\ clicked = "none"
    /\ last = NoClick
    /\ inp = DefaultInputs
    /\ stale = FALSE
    /\ data = << >>
    /\ eng = "off"
    /\ X = << >>
    /\ h = << >>
    /\ op = "none"
    /\ call = NoCall
    /\ subset = << >>
    /\ n_eff = 0
    /\ outcome = "none"
    /\ surrogates = << >>
    /\ clusters = NoLabels
    /\ lard = 0
    /\ CovIdle
    /\ SimIdle
    /\ RngIdle
    /\ AppIdle

\* surr and sim keep what they hold
LeaveResults == UNCHANGED <<app_surr, app_sim>>

\* surr.set({}); sim.set({})
ResetResults ==
    /\ app_surr' = {}
    /\ app_sim' = << >>

\* clear() of the sidebar, which runs when desc changes: four inputs are
\* set to their defaults; the fifth update names the input 'user_surr',
\* which does not exist (the text area is 'user_ids'), so the text stays
clear(v) ==
    [include_auto |-> TRUE, n |-> DEFAULT_N, strats |-> {"hierarchical"},
     include_user |-> FALSE, user_ids |-> v.user_ids]

\* _set_data(data_, desc_) of the application, called by the load and the
\* upload modal: surr and sim are reset, a data set of that many rows is
\* loaded, and the change of desc runs clear
LoadData(rows) ==
    /\ ResetResults
    /\ desc_rows' = rows
    /\ inp' = clear(inp)
    /\ stale' = (app_surr' # {} \/ app_sim' # << >>)
    /\ clicked' = IF app_surr # {} \/ app_sim # << >> THEN "cleared" ELSE "none"
    /\ last' = NoClick
    /\ UNCHANGED RANDOM_NS
    /\ UNCHANGED <<engvars, callvars, covvars, simvars, rngvars, appvars>>

\* the user edits one input of the sidebar
EditInput(v) ==
    /\ inp' = v
    /\ clicked' = "none"
    /\ last' = NoClick
    /\ UNCHANGED <<RANDOM_NS, desc_rows, app_surr, app_sim, stale>>
    /\ UNCHANGED <<engvars, callvars, covvars, simvars, rngvars, appvars>>

ToggleAuto == EditInput([inp EXCEPT !.include_auto = ~@])

SetStrats(strats) == inp.strats # strats /\ EditInput([inp EXCEPT !.strats = strats])

SetN(n) == inp.n # n /\ EditInput([inp EXCEPT !.n = n])

ToggleUser == EditInput([inp EXCEPT !.include_user = ~@])

SetUserIds(k) == inp.user_ids # k /\ EditInput([inp EXCEPT !.user_ids = k])

\* _set_surr(surr, sim) called with nothing selected
StoreNoResults ==
    /\ app_surr' = {}
    /\ app_sim' = << >>
    /\ UNCHANGED RANDOM_NS

\* the handler returns before ns is built and before _set_surr
KeepResults == UNCHANGED <<RANDOM_NS, app_surr, app_sim>>

\* the Select click, with the values of the inputs; an n of 0 stands
\* for an empty field too (both fail _validate_auto, both make the
\* simulation raise when appended)
ClickSelect(include_auto, n, strats, include_user, n_user) ==
    /\ Len0(appended(RANDOM_NS, include_auto, n, include_user, n_user))
            <= Len0(ReferenceNs) + MaxExtra
    /\ last' = [include_auto |-> include_auto, n |-> n, strats |-> strats,
                include_user |-> include_user, n_user |-> n_user]
    /\ IF desc_rows = 0
       THEN /\ clicked' = "no_data"
            /\ KeepResults
            /\ UNCHANGED stale
       ELSE LET auto_ok == include_auto /\ n.num > 0 /\ strats # {}
                user_ok == include_user /\ n_user > 0
                surr == (IF auto_ok THEN strats ELSE {})
                            \cup (IF user_ok THEN {"user"} ELSE {})
                ns == appended(RANDOM_NS, include_auto, n, include_user, n_user)
                sizes == sorted_unique_int_ns(ns, desc_rows)
            IN IF auto_ok /\ \E st \in strats :
                                select_raises(desc_rows, int_n(n, desc_rows), st)
               THEN /\ clicked' = "crashed"
                    /\ UNCHANGED <<RANDOM_NS, app_surr, app_sim, stale>>
               ELSE IF surr = {}
               THEN /\ clicked' = "rejected"
                    /\ KeepResults
                    /\ UNCHANGED stale
               ELSE /\ RANDOM_NS' = ns
                    /\ IF \E i \in DOMAIN sizes :
                                select_raises(desc_rows, sizes[i], "random")
                       THEN /\ clicked' = "sim_crashed"
                            /\ UNCHANGED <<app_surr, app_sim, stale>>
                       ELSE /\ clicked' = "results"
                            /\ app_surr' = surr
                            /\ app_sim' = sizes
                            /\ stale' = FALSE
    /\ UNCHANGED <<desc_rows, inp>>
    /\ UNCHANGED <<engvars, callvars, covvars, simvars, rngvars, appvars>>

NextDash ==
    \/ \E rows \in RowCounts : LoadData(rows)
    \/ ToggleAuto
    \/ \E strats \in DashStrats : SetStrats(strats)
    \/ \E n \in DashNs : SetN(n)
    \/ ToggleUser
    \/ \E k \in DashUsers : SetUserIds(k)
    \/ ClickSelect(inp.include_auto, inp.n, inp.strats, inp.include_user,
                   inp.user_ids)

SpecDash == InitDash /\ [][NextDash]_vars

\* C20: after a Select click that produced results the baseline was
\* simulated at the sizes 1 %, 10 %, 20 % and 50 % of the data set, at the
\* automated n of that click when automated selection was included, at the
\* number of user-selected surrogates of that click when user selection was
\* included, and at no other size.
C20_SimulatedSizes ==
    clicked = "results" =>
        Range(app_sim) =
            {int_n(ReferenceNs[i], desc_rows) : i \in DOMAIN ReferenceNs}
                \cup (IF last.include_auto
                      THEN {int_n(last.n, desc_rows)} ELSE {})
                \cup (IF last.include_user /\ last.n_user > 0
                      THEN {last.n_user} ELSE {})

\* C21: every change of the data set, by the load or the upload modal,
\* empties surr and sim, so results that are not empty were computed from
\* the data set that is loaded.
C21_ResultsOfLoadedData ==
    /\ stale = FALSE
    /\ clicked = "cleared" => app_surr = {} /\ app_sim = << >>

\* results were on display, a data set was loaded and the results are gone
C21_Witness ==
    /\ clicked = "cleared"
    /\ desc_rows # 0
    /\ app_surr = {}
    /\ app_sim = << >>

\* C22: whenever the loaded data set changes, every selection input is back
\* at its default: automated selection on, strategies [hierarchical],
\* n = 0.2, user selection off and the user ID text empty.
C22_InputsReset ==
    [][(\E rows \in RowCounts : LoadData(rows)) => inp' = DefaultInputs]_vars

\* C25: the list of sizes handed to the simulation holds every effective
\* size at most once, fractions resolved, so every simulated size gets
\* RANDOM_REPS scores and no more.
C25_SizesOnce ==
    clicked = "results" =>
        \A i, j \in DOMAIN app_sim : app_sim[i] = app_sim[j] => i = j

\* C26: a Select click that yields no selection result (no data loaded, no
\* selection switched on, or every selection switched on failing its
\* validation) runs no simulation and does not call _set_surr: the stored
\* results and the list of sizes stay as they were.
C26_NothingSelected ==
    [][clicked' \in {"no_data", "rejected"} =>
            UNCHANGED <<RANDOM_NS, app_surr, app_sim>>]_vars

\* a click was turned down while results of an earlier click were stored
C26_Witness ==
    /\ clicked = "rejected"
    /\ app_surr # {}
    /\ app_sim # << >>

\* C28: on a data set of at least one row, every size of the simulation of
\* a Select click that selected something resolves to a count in [1, N],
\* and the simulation completes.
C28_SimulationCompletes ==
    (desc_rows >= 1 /\ clicked \in {"results", "sim_crashed"}) =>
        /\ \A i \in DOMAIN RANDOM_NS :
                /\ int_n(RANDOM_NS[i], desc_rows) >= 1
                /\ int_n(RANDOM_NS[i], desc_rows) <= desc_rows
        /\ clicked = "results"

\* C29: when automated selection is switched on but fails its validation
\* while user selection is switched on and valid, the click completes and
\* stores the user result with a simulation, and an n that was turned down
\* is not among the sizes simulated. (Stated for a data set on which the
\* four reference sizes resolve to one row at least, and for a click that
\* finds the list of sizes as the module defines it.)
C29_UserResultStored ==
    (/\ desc_rows >= 1
     /\ \A i \in DOMAIN ReferenceNs : int_n(ReferenceNs[i], desc_rows) >= 1
     /\ RANDOM_NS \in {ReferenceNs,
                       appended(ReferenceNs, last.include_auto, last.n,
                                last.include_user, last.n_user)}
     /\ clicked \in {"rejected", "crashed", "sim_crashed", "results"}
     /\ last.include_auto
     /\ (last.n.num = 0 \/ last.strats = {})
     /\ last.include_user
     /\ last.n_user > 0) =>
        /\ clicked = "results"
        /\ app_surr = {"user"}
        /\ app_sim # << >>
        /\ last.n.num = 0 => 0 \notin Range(app_sim)

-----------------------------------------------------------------------------
(* The descriptor calculation *)

\* no engine is constructed and no call is made
EngineOff ==
    /\ data = << >>
    /\ eng = "off"
    /\ X = << >>
    /\ h = << >>
    /\ op = "none"
    /\ call = NoCall
    /\ subset = << >>
    /\ n_eff = 0
    /\ outcome = "none"
    /\ surrogates = << >>
    /\ clusters = NoLabels
    /\ lard = 0

\* np.where(np.array(mols) == None)[0]: the positions of the records whose
\* SMILES MolFromSmiles turned into None
bad_idx(recs) == {i \in DOMAIN recs : ~recs[i].parsable}

\* desc.drop(labels=bad_idx, inplace=True) on the frame of
\* _desc_calculator.pandas(mols), whose rows are labelled by position: the
\* positions that stay, in order
drop(recs) == SortedArr(DOMAIN recs \ bad_idx(recs))

\* calculate_ionization_efficiency(smiles, index, with_tsne), smiles and
\* index being the two columns of recs: a row is the label it carries and
\* the position of the record it was computed from; desc.index = index
\* raises ValueError when the frame has not as many rows as index has
\* values. (TSNE's own demands on the number of rows are left out.)
calculate_ionization_efficiency(recs, with_tsne) ==
    LET kept == drop(recs)
    IN IF Len0(kept) # Len0(recs)
       THEN [state |-> "raised", rows |-> << >>, with_tsne |-> with_tsne]
       ELSE [state |-> "returned",
             rows |-> [i \in DOMAIN kept |->
                          [label |-> recs[i].id, of |-> kept[i]]],
             with_tsne |-> with_tsne]

\* the records tried: one to MaxRecs of them, every one with an index value
\* and a SMILES that converts or does not
RecordSets ==
    UNION {[0..(k - 1) -> [id : 1..MaxId, parsable : BOOLEAN]] : k \in 1..MaxRecs}

InitCalc ==
    /\ records \in RecordSets
    /\ calc = NoCalc
    /\ EngineOff
    /\ CovIdle
    /\ SimIdle
    /\ RngIdle
    /\ DashIdle
    /\ FilesIdle
    /\ ModalIdle

Calculate(with_tsne) ==
    /\ calc.state = "none"
    /\ calc' = calculate_ionization_efficiency(records, with_tsne)
    /\ UNCHANGED records
    /\ UNCHANGED <<engvars, callvars, covvars, simvars, rngvars, dashvars>>
    /\ UNCHANGED <<filevars, modalvars>>

NextCalc == \E with_tsne \in BOOLEAN : Calculate(with_tsne)

SpecCalc == InitCalc /\ [][NextCalc]_vars

\* C27: calculate_ionization_efficiency drops the records whose SMILES do
\* not convert and returns one row for each of the others, labelled with
\* that record's own index value: N records of which k do not convert give
\* N - k rows.
C27_UnparsableDropped ==
    calc.state # "none" =>
        /\ calc.state = "returned"
        /\ Len0(calc.rows) = Len0(records) - Cardinality(bad_idx(records))
        /\ {calc.rows[i].of : i \in DOMAIN calc.rows}
                = DOMAIN records \ bad_idx(records)
        /\ \A i \in DOMAIN calc.rows :
                calc.rows[i].label = records[calc.rows[i].of].id

-----------------------------------------------------------------------------
(* The data folder *)

\* the names of directories tried, strings of characters
FolderNames == {<<"a", "b">>, <<"c", "d">>}

Contents == 1..MaxContent

DirStates == {NoDir} \cup [data : Contents, desc : Contents]

\* os.makedirs(save_to_folder, exist_ok=True)
makedirs_exist_ok(dsk, name) == "made"

\* os.makedirs(save_to_folder): exist_ok is False, so the call raises when
\* the directory is there
makedirs(dsk, name) ==
    IF dsk[name] # NoDir THEN "FileExistsError" ELSE "made"

\* the application starts on any data folder, and writes the log at once
\* (update_log() at import)
InitFiles ==
    /\ disk \in [FolderNames -> DirStates]
    /\ clock \in 0..1
    /\ log = clock
    /\ save = NoSave
    /\ EngineOff
    /\ CovIdle
    /\ SimIdle
    /\ RngIdle
    /\ DashIdle
    /\ CalcIdle
    /\ ModalIdle

NotFiles ==
    /\ UNCHANGED <<engvars, callvars, covvars, simvars, rngvars, dashvars>>
    /\ UNCHANGED <<calcvars, modalvars>>

\* time passes
Tick ==
    /\ clock < MaxClock
    /\ clock' = clock + 1
    /\ UNCHANGED <<disk, log, save>>
    /\ NotFiles

\* save_data is called with a name and two frames
CallSaveData(name, data_, desc_) ==
    /\ save.state # "called"
    /\ save' = [name |-> name, data |-> data_, desc |-> desc_,
                state |-> "called"]
    /\ UNCHANGED <<disk, log, clock>>
    /\ NotFiles

\* the body of save_data: makedirs, the two save_parquet calls, update_log
SaveData ==
    /\ save.state = "called"
    /\ IF makedirs(disk, save.name) = "FileExistsError"
       THEN /\ save' = [save EXCEPT !.state = "FileExistsError"]
            /\ UNCHANGED <<disk, log>>
       ELSE /\ save' = [save EXCEPT !.state = "saved"]
            /\ disk' = [disk EXCEPT ![save.name] =
                            [data |-> save.data, desc |-> save.desc]]
            /\ log' = clock
    /\ UNCHANGED clock
    /\ NotFiles

NextFiles ==
    \/ Tick
    \/ \E name \in FolderNames, data_, desc_ \in Contents :
            CallSaveData(name, data_, desc_)
    \/ SaveData

SpecFiles == InitFiles /\ [][NextFiles]_vars

\* C24: save_data never overwrites a data set: called with the name of a
\* directory that exists it fails with FileExistsError and leaves the
\* directory's two files and the last-updated log as they were.
C24_NoOverwrite ==
    [][(save.state = "called" /\ save' # save /\ disk[save.name] # NoDir) =>
            /\ save'.state = "FileExistsError"
            /\ disk' = disk
            /\ log' = log]_vars

\* save_data failed on a directory that holds other data than the call
\* brought, at a time a log update would have shown
C24_Witness ==
    /\ save.state = "FileExistsError"
    /\ disk[save.name] # NoDir
    /\ disk[save.name].data # save.data
    /\ log < clock

-----------------------------------------------------------------------------
(* The load and upload modals *)

UpperCase ==
    <<"A", "B", "C", "D", "E", "F", "G", "H", "I", "J", "K", "L", "M",
      "N", "O", "P", "Q", "R", "S", "T", "U", "V", "W", "X", "Y", "Z">>

LowerCase ==
    <<"a", "b", "c", "d", "e", "f", "g", "h", "i", "j", "k", "l", "m",
      "n", "o", "p", "q", "r", "s", "t", "u", "v", "w", "x", "y", "z">>

Digits == {"0", "1", "2", "3", "4", "5", "6", "7", "8", "9"}

\* str.lower() of a string of ASCII characters
lower(str) ==
    [i \in DOMAIN str |->
        IF \E j \in DOMAIN UpperCase : UpperCase[j] = str[i]
        THEN LowerCase[CHOOSE j \in DOMAIN UpperCase : UpperCase[j] = str[i]]
        ELSE str[i]]

\* the bounds of NAME_PATTERN
NAME_MIN == 2

NAME_MAX == 32

\* re.fullmatch(NAME_PATTERN, name), NAME_PATTERN being
\* [A-Za-z0-9_\- ]{2,32}
fullmatch_NAME_PATTERN(str) ==
    /\ Len(str) >= NAME_MIN
    /\ Len(str) <= NAME_MAX
    /\ \A i \in DOMAIN str :
            str[i] \in Range(UpperCase) \cup Range(LowerCase) \cup Digits
                            \cup {"_", "-", " "}

\* _validate_name(name), with the names datasets() offers
_validate_name(str, names) ==
    IF str = << >> THEN <<"NO_NAME">>
    ELSE IF lower(str) \in {lower(x) : x \in names} THEN <<"NAME_DUP">>
    ELSE IF ~fullmatch_NAME_PATTERN(str) THEN <<"NAME_INVALID">>
    ELSE << >>

\* _validate_data(data, id_col, qrs_col)
_validate_data(recs, id, qrs) ==
    IF recs = << >> THEN <<"NO_FILE">>
    ELSE IF id = qrs THEN <<"COLS_DUP">>
    ELSE << >>

\* the errors upload collects: those of the name, then those of the data
upload_errors ==
    _validate_name(up_name, datasets) \o _validate_data(temp, id_col, qrs_col)

\* get_datasets(): the directories of the data folder
get_datasets(dsk) == {x \in DOMAIN dsk : dsk[x] # NoDir}

\* the names typed: none, one character, the names of the folder, one of
\* them in another case, one with a character that is not allowed
TypedNames ==
    FolderNames \cup {<< >>, <<"a">>, <<"A", "b">>, <<"a", "!">>}

\* the files chosen: one that cannot be read or holds no record, one whose
\* SMILES all convert, one with a SMILES that does not
ChosenFiles ==
    {<< >>,
     [i \in 0..1 |-> [id |-> i + 1, parsable |-> TRUE]],
     [i \in 0..1 |-> [id |-> i + 1, parsable |-> i = 0]]}

Columns == {"c1", "c2"}

\* the arguments upload hands to calculate_ionization_efficiency, and the
\* parameters the function requires
CalcArgsGiven == 2

CalcParams == 3

InitModals ==
    /\ disk \in [FolderNames -> {NoDir, [data |-> 1, desc |-> 1]}]
    /\ clock = 0
    /\ log = clock
    /\ save = NoSave
    /\ ModalIdle
    /\ EngineOff
    /\ CovIdle
    /\ SimIdle
    /\ RngIdle
    /\ DashIdle
    /\ CalcIdle

NotModals ==
    /\ UNCHANGED <<engvars, callvars, covvars, simvars, rngvars, dashvars>>
    /\ UNCHANGED calcvars

\* update_datasets of the application, which runs when the log changes and
\* when the session starts
update_datasets ==
    /\ datasets' = get_datasets(disk)
    /\ up' = "none"
    /\ UNCHANGED <<modal, up_name, temp, id_col, qrs_col, notified, app_data>>
    /\ UNCHANGED filevars
    /\ NotModals

\* show_load_modal and show_upload_modal of the application: the modal is
\* built anew, its inputs empty
show_modal(which) ==
    /\ modal = "closed"
    /\ modal' = which
    /\ up_name' = << >>
    /\ id_col' = "none"
    /\ qrs_col' = "none"
    /\ up' = "none"
    /\ UNCHANGED <<datasets, temp, notified, app_data>>
    /\ UNCHANGED filevars
    /\ NotModals

\* load of the load modal, with the name selected
load(str) ==
    /\ modal = "load"
    /\ up' = "none"
    /\ IF str = << >>
       THEN /\ notified' = <<"NO_NAME">>
            /\ UNCHANGED <<modal, app_data>>
       ELSE /\ app_data' = disk[str]
            /\ notified' = <<"LOAD_SUCCESS">>
            /\ modal' = "closed"
    /\ UNCHANGED <<datasets, up_name, temp, id_col, qrs_col>>
    /\ UNCHANGED filevars
    /\ NotModals

\* the Close button of the load modal
close_load ==
    /\ modal = "load"
    /\ modal' = "closed"
    /\ up' = "none"
    /\ UNCHANGED <<datasets, up_name, temp, id_col, qrs_col, notified, app_data>>
    /\ UNCHANGED filevars
    /\ NotModals

\* the user types a name
type_name(str) ==
    /\ modal = "upload"
    /\ up_name # str
    /\ up_name' = str
    /\ up' = "none"
    /\ UNCHANGED <<datasets, modal, temp, id_col, qrs_col, notified, app_data>>
    /\ UNCHANGED filevars
    /\ NotModals

\* upload_temp and update_select: the file chosen is read into temp, an
\* empty result is notified, and the column selectors get the columns of
\* temp as choices, which leaves both on the first column
upload_temp(recs) ==
    /\ modal = "upload"
    /\ temp' = recs
    /\ notified' = IF recs = << >> THEN <<"FILE_INVALID">> ELSE << >>
    /\ id_col' = IF recs = << >> THEN "none" ELSE "c1"
    /\ qrs_col' = IF recs = << >> THEN "none" ELSE "c1"
    /\ up' = "none"
    /\ UNCHANGED <<datasets, modal, up_name, app_data>>
    /\ UNCHANGED filevars
    /\ NotModals

\* the user selects columns
select_cols(id, qrs) ==
    /\ modal = "upload"
    /\ temp # << >>
    /\ <<id_col, qrs_col>> # <<id, qrs>>
    /\ id_col' = id
    /\ qrs_col' = qrs
    /\ up' = "none"
    /\ UNCHANGED <<datasets, modal, up_name, temp, notified, app_data>>
    /\ UNCHANGED filevars
    /\ NotModals

\* only the first error is notified
notify_first(errors) == notified' = <<Head(errors)>>

\* for err in errors: error_notification(err)
notify_each(errors) == notified' = errors

\* upload of the upload modal
upload ==
    /\ modal = "upload"
    /\ LET errors == upload_errors
           desc_ == IF CalcArgsGiven < CalcParams
                    THEN [state |-> "raised", rows |-> << >>,
                          with_tsne |-> FALSE]
                    ELSE calculate_ionization_efficiency(temp, FALSE)
       IN IF errors # << >>
          THEN /\ notify_each(errors)
               /\ up' = "rejected"
               /\ UNCHANGED <<modal, temp, app_data, disk, log>>
          ELSE IF desc_.state = "raised"
          THEN /\ up' = "raised"
               /\ UNCHANGED <<modal, temp, notified, app_data, disk, log>>
          ELSE IF makedirs(disk, up_name) = "FileExistsError"
          THEN /\ up' = "raised"
               /\ UNCHANGED <<modal, temp, notified, app_data, disk, log>>
          ELSE /\ up' = "uploaded"
               /\ disk' = [disk EXCEPT ![up_name] =
                               [data |-> Len0(temp),
                                desc |-> Len0(desc_.rows)]]
               /\ log' = clock
               /\ app_data' = disk'[up_name]
               /\ notified' = <<"LOAD_SUCCESS">>
               /\ temp' = << >>
               /\ modal' = "closed"
    /\ UNCHANGED <<datasets, up_name, id_col, qrs_col, clock, save>>
    /\ NotModals

\* close of the upload modal
close ==
    /\ modal = "upload"
    /\ temp' = << >>
    /\ modal' = "closed"
    /\ up' = "none"
    /\ UNCHANGED <<datasets, up_name, id_col, qrs_col, notified, app_data>>
    /\ UNCHANGED filevars
    /\ NotModals

NextModals ==
    \/ update_datasets
    \/ \E which \in {"load", "upload"} : show_modal(which)
    \/ \E str \in datasets \cup {<< >>} : load(str)
    \/ close_load
    \/ \E str \in TypedNames : type_name(str)
    \/ \E recs \in ChosenFiles : upload_temp(recs)
    \/ \E id, qrs \in Columns : select_cols(id, qrs)
    \/ upload
    \/ close

SpecModals == InitModals /\ [][NextModals]_vars

\* C23: an Upload click that finds a validation error of the name or of the
\* data and columns notifies every error found, saves no data set, leaves
\* the global data and descriptors as they were and does not close the
\* modal; a data set is saved only by a click that found no error.
C23_UploadRejected ==
    [][up' # "none" =>
            /\ upload_errors # << >> =>
                    /\ up' = "rejected"
                    /\ notified' = upload_errors
                    /\ disk' = disk
                    /\ log' = log
                    /\ app_data' = app_data
                    /\ modal' = "upload"
            /\ (up' = "uploaded" \/ disk' # disk) => upload_errors = << >>]_vars

\* an Upload click found an error of the name and one of the data, while a
\* data set was loaded
C23_Witness ==
    /\ up = "rejected"
    /\ Len(notified) = 2
    /\ modal = "upload"
    /\ app_data # NoDir

=============================================================================
